---- MODULE Spec2Model ----
(***************************************************************************)
(* A model of the token strategies of passport-instagram-token:            *)
(*   "es6"    src/src/index.js       InstagramTokenStrategy (class)        *)
(*   "legacy" src/lib/Strategy.js    InstagramTokenStrategy (prototype)    *)
(*   "apple"  src/unnamed/part_001   AppleTokenStrategy                    *)
(* One authentication attempt is authenticate(req) followed by the         *)
(* completion callback of the remote fetch (the OAuth2 GET or jwt.verify)  *)
(* and, when the application's verify callback completes later, by its     *)
(* completion.  JavaScript values are encoded as strings (primitives) and  *)
(* records (objects); undefined, null, true and false are the strings      *)
(* below, which no token, field or message of the model equals.            *)
(***************************************************************************)
EXTENDS Integers, Sequences, FiniteSets, TLC

Undefined == "#undefined"
Null == "#null"
JsTrue == "#true"
JsFalse == "#false"

\* JavaScript truthiness of a primitive.
Truthy(v) == v \notin {Undefined, Null, JsFalse, ""}

\* a || b and the option default `x || d`.
Or(a, b) == IF Truthy(a) THEN a ELSE b

(***************************************************************************)
(* Bounds of the model.                                                    *)
(***************************************************************************)
MaxTokens == 2

TokenNames == <<"t1", "t2", "t3", "t4">>
Tokens == {TokenNames[i] : i \in 1..MaxTokens}

Attempts == {1, 2}
\* The attempts that run in Spec: one attempt at a time.
SeqAttempts == {1}

Fields == {"access_token", "refresh_token", "id_token", "tok", "rtok"}

(***************************************************************************)
(* Strategy construction.                                                  *)
(***************************************************************************)
DefaultProfileURL == "https://api.instagram.com/v1/users/self"

\* A constructor that takes enableProof as given, without a default.
InstagramTokenStrategy_NoDefault(options) ==
  [variant |-> "es6",
   name |-> "instagram-token",
   _accessTokenField |-> Or(options.accessTokenField, "access_token"),
   _refreshTokenField |-> Or(options.refreshTokenField, "refresh_token"),
   _identityTokenField |-> Undefined,
   _profileURL |-> Or(options.profileURL, DefaultProfileURL),
   _clientID |-> options.clientID,
   _clientSecret |-> options.clientSecret,
   _enableProof |-> options.enableProof,
   _passReqToCallback |-> options.passReqToCallback]

\* src/src/index.js: constructor.
InstagramTokenStrategy(options) ==
  [variant |-> "es6",
   name |-> "instagram-token",
   _accessTokenField |-> Or(options.accessTokenField, "access_token"),
   _refreshTokenField |-> Or(options.refreshTokenField, "refresh_token"),
   _identityTokenField |-> Undefined,
   _profileURL |-> Or(options.profileURL, DefaultProfileURL),
   _clientID |-> options.clientID,
   _clientSecret |-> options.clientSecret,
   _enableProof |-> IF options.enableProof \in {JsTrue, JsFalse}
                   THEN options.enableProof ELSE JsTrue,
   _passReqToCallback |-> options.passReqToCallback]

\* src/lib/Strategy.js: constructor.  It reads no field-name option, no
\* clientSecret of its own and no enableProof.
LegacyInstagramTokenStrategy(options) ==
  [variant |-> "legacy",
   name |-> "instagram-token",
   _accessTokenField |-> Undefined,
   _refreshTokenField |-> Undefined,
   _identityTokenField |-> Undefined,
   _profileURL |-> Or(options.profileURL, DefaultProfileURL),
   _clientID |-> options.clientID,
   _clientSecret |-> Undefined,
   _enableProof |-> Undefined,
   _passReqToCallback |-> options.passReqToCallback]

\* src/unnamed/part_001: constructor (it throws without a clientID, so every
\* constructed strategy has one).
AppleTokenStrategy(options) ==
  [variant |-> "apple",
   name |-> "apple-token",
   _accessTokenField |-> Undefined,
   _refreshTokenField |-> Undefined,
   _identityTokenField |-> Or(options.identityTokenField, "id_token"),
   _profileURL |-> Undefined,
   _clientID |-> options.clientID,
   _clientSecret |-> Undefined,
   _enableProof |-> Undefined,
   _passReqToCallback |-> options.passReqToCallback]

Construct(variant, options) ==
  CASE variant = "es6" -> InstagramTokenStrategy(options)
    [] variant = "legacy" -> LegacyInstagramTokenStrategy(options)
    [] variant = "apple" -> AppleTokenStrategy(options)

Variants == {"es6", "legacy", "apple"}

\* The options objects given to the constructors.  An option a variant never
\* reads is left undefined for it.
OptionSet(variant) ==
  {[clientID |-> "123",
    clientSecret |-> IF variant = "apple" THEN Undefined ELSE "shhh",
    accessTokenField |-> fn[1],
    refreshTokenField |-> fn[2],
    identityTokenField |-> fn[3],
    profileURL |-> fn[4],
    enableProof |-> ep,
    passReqToCallback |-> prc] :
     fn \in (CASE variant = "es6" ->
                    {<<Undefined, Undefined, Undefined, Undefined>>,
                     <<"tok", "rtok", Undefined, "https://proxy.example/self">>}
               [] variant = "legacy" ->
                    {<<Undefined, Undefined, Undefined, Undefined>>,
                     <<Undefined, Undefined, Undefined, "https://proxy.example/self">>}
               [] variant = "apple" ->
                    {<<Undefined, Undefined, Undefined, Undefined>>,
                     <<Undefined, Undefined, "tok", Undefined>>}),
     ep \in (IF variant = "es6" THEN {Undefined, Null, JsTrue, JsFalse} ELSE {Undefined}),
     prc \in {Undefined, JsTrue}}

(***************************************************************************)
(* Requests.  A part (body, query, headers) is absent or a map from        *)
(* field names to primitives plus the `user` value the Apple variant       *)
(* reads.  A user value is undefined, a string, null or an object with     *)
(* firstName / lastName.                                                   *)
(***************************************************************************)
UserUndefined == [t |-> "undefined", s |-> "", firstName |-> Undefined, lastName |-> Undefined]
UserNull == [t |-> "null", s |-> "", firstName |-> Undefined, lastName |-> Undefined]
UserString(text) == [t |-> "string", s |-> text, firstName |-> Undefined, lastName |-> Undefined]
UserObject(first, last) == [t |-> "object", s |-> "", firstName |-> first, lastName |-> last]

UserNumber == [t |-> "number", s |-> "", firstName |-> Undefined, lastName |-> Undefined]

TruthyUser(u) == u.t \in {"object", "number"} \/ (u.t = "string" /\ u.s # "")

NoPart == [present |-> FALSE, fields |-> [f \in Fields |-> Undefined], user |-> UserUndefined]

PartWith(k, v, rk, r, u) ==
  [present |-> TRUE,
   fields |-> [f \in Fields |-> IF f = k THEN v ELSE IF f = rk THEN r ELSE Undefined],
   user |-> u]

PartVals == {Undefined, ""} \cup Tokens

\* The field names a request uses for its tokens.
KeyStyles(variant) ==
  IF variant = "apple"
  THEN {<<"id_token", "refresh_token">>, <<"tok", "rtok">>}
  ELSE {<<"access_token", "refresh_token">>, <<"tok", "rtok">>}

\* Where a request carries refresh tokens (body, query, headers).
RefreshPlacements(variant) ==
  IF variant = "apple"
  THEN {<<Undefined, Undefined, Undefined>>}
  ELSE {<<Undefined, Undefined, Undefined>>,
        <<"r1", Undefined, Undefined>>,
        <<Undefined, "r2", "r3">>}

UserJSONTexts == {"{\"firstName\":\"Jane\",\"lastName\":\"Doe\"}",
                  "{\"firstName\":\"Jane\"}",
                  "{}",
                  "null",
                  "not a JSON"}

\* The `user` values of a request (body, query); only the Apple variant reads them.
UserPlacements(variant) ==
  IF variant = "apple"
  THEN {<<UserUndefined, UserUndefined>>,
        <<UserUndefined, UserObject("Jane", "Doe")>>,
        <<UserObject(Undefined, "Doe"), UserUndefined>>,
        <<UserObject(Undefined, Undefined), UserUndefined>>}
       \cup {<<UserString(t), UserUndefined>> : t \in UserJSONTexts}
  ELSE {<<UserUndefined, UserUndefined>>}

MkPart(ks, v, r, u) ==
  IF v = "#absent" THEN NoPart ELSE PartWith(ks[1], v, ks[2], r, u)

Requests(variant) ==
  {[body |-> MkPart(ks, b, rp[1], up[1]),
    query |-> MkPart(ks, q, rp[2], up[2]),
    headers |-> MkPart(ks, h, rp[3], UserUndefined)] :
     ks \in KeyStyles(variant),
     b \in PartVals \cup {"#absent"},
     q \in PartVals \cup {"#absent"},
     h \in Tokens \cup {"#absent"},
     rp \in RefreshPlacements(variant),
     up \in UserPlacements(variant)}

(***************************************************************************)
(* Token extraction.                                                       *)
(***************************************************************************)
\* req.body && req.body[field]
Lookup(part, field) == IF part.present THEN part.fields[field] ELSE Undefined

\* req.body && req.body.user
LookupUser(part) == IF part.present THEN part.user ELSE UserUndefined

\* An extractor that prefers the query over the body.
ExtractBodyQuery_QueryFirst(r, field) == Or(Lookup(r.query, field), Lookup(r.body, field))

\* (req.body && req.body[f]) || (req.query && req.query[f])
ExtractBodyQuery(r, field) == Or(Lookup(r.body, field), Lookup(r.query, field))

\* (req.body && ...) || (req.query && ...) || (req.headers && ...)
ExtractBodyQueryHeaders(r, field) ==
  Or(Or(Lookup(r.body, field), Lookup(r.query, field)), Lookup(r.headers, field))

\* The access (identity) token authenticate reads from the request.
AccessTokenOf(st, r) ==
  CASE st.variant = "es6" -> ExtractBodyQuery(r, st._accessTokenField)
    [] st.variant = "legacy" -> ExtractBodyQueryHeaders(r, "access_token")
    [] st.variant = "apple" -> ExtractBodyQuery(r, st._identityTokenField)

\* The refresh token authenticate reads from the request (the Apple variant
\* reads none).
RefreshTokenOf(st, r) ==
  CASE st.variant = "es6" -> ExtractBodyQuery(r, st._refreshTokenField)
    [] st.variant = "legacy" -> ExtractBodyQueryHeaders(r, "refresh_token")
    [] st.variant = "apple" -> Undefined

\* The name in the message of the missing-token failure.
TokenFieldName(st) ==
  CASE st.variant = "es6" -> st._accessTokenField
    [] st.variant = "legacy" -> "access_token"
    [] st.variant = "apple" -> st._identityTokenField

\* A message that names the default field whatever the configuration is.
MissingTokenInfo_Hardcoded(st) ==
  [defined |-> TRUE, message |-> <<"You should provide ", "access_token">>]

\* `You should provide ${field}`: a string is the sequence of its pieces.
MissingTokenInfo(st) ==
  [defined |-> TRUE, message |-> <<"You should provide ", TokenFieldName(st)>>]

(***************************************************************************)
(* JSON.  A text is a string; JSON.parse is the table below.  A parsed     *)
(* value records what the code reads of it: whether it is an object, null  *)
(* or another primitive, and its members data, meta, firstName, lastName   *)
(* and id.  A member is "undefined" (missing), "null", "primitive" or      *)
(* "object".                                                               *)
(***************************************************************************)
Data(kind, id, username, fullName, firstName, lastName, picture) ==
  [kind |-> kind, id |-> id, username |-> username, full_name |-> fullName,
   first_name |-> firstName, last_name |-> lastName, profile_picture |-> picture]

NoData == Data("undefined", Undefined, Undefined, Undefined, Undefined, Undefined, Undefined)
NullData == [NoData EXCEPT !.kind = "null"]
PrimitiveData == [NoData EXCEPT !.kind = "primitive"]
EmptyData == [NoData EXCEPT !.kind = "object"]

Meta(kind, message, code) == [kind |-> kind, error_message |-> message, code |-> code]
NoMeta == Meta("undefined", Undefined, Undefined)

Json(top, data, meta, firstName, lastName) ==
  [top |-> top, data |-> data, meta |-> meta,
   firstName |-> firstName, lastName |-> lastName, id |-> Undefined]

JsonObject(data, meta) == Json("object", data, meta, Undefined, Undefined)
JsonNull == Json("null", NoData, NoMeta, Undefined, Undefined)
JsonPrimitive == Json("primitive", NoData, NoMeta, Undefined, Undefined)

FullProfileBody ==
  "{\"data\":{\"id\":\"1234567\",\"username\":\"ghaiklor\",\"full_name\":\"Eugene Obrezkov\",\"first_name\":\"Eugene\",\"last_name\":\"Obrezkov\",\"profile_picture\":\"http://pic/1.jpg\"}}"
PartialProfileBody == "{\"data\":{\"id\":\"42\",\"username\":\"anon\"}}"
ProviderErrorData == "{\"meta\":{\"error_message\":\"Invalid token\",\"code\":\"400\"}}"

\* JSON.parse: [ok |-> FALSE] is a thrown SyntaxError (also for undefined,
\* which JSON.parse reads as the text "undefined").
JSONParse(text) ==
  CASE text = FullProfileBody ->
         [ok |-> TRUE, value |-> JsonObject(Data("object", "1234567", "ghaiklor",
            "Eugene Obrezkov", "Eugene", "Obrezkov", "http://pic/1.jpg"), NoMeta)]
    [] text = PartialProfileBody ->
         [ok |-> TRUE, value |-> JsonObject(Data("object", "42", "anon",
            Undefined, Undefined, Undefined, Undefined), NoMeta)]
    [] text = "{\"data\":{}}" -> [ok |-> TRUE, value |-> JsonObject(EmptyData, NoMeta)]
    [] text = "{\"data\":5}" -> [ok |-> TRUE, value |-> JsonObject(PrimitiveData, NoMeta)]
    [] text = "{\"data\":null}" -> [ok |-> TRUE, value |-> JsonObject(NullData, NoMeta)]
    [] text = "{}" -> [ok |-> TRUE, value |-> JsonObject(NoData, NoMeta)]
    [] text = "null" -> [ok |-> TRUE, value |-> JsonNull]
    [] text = "5" -> [ok |-> TRUE, value |-> JsonPrimitive]
    [] text = ProviderErrorData ->
         [ok |-> TRUE, value |-> JsonObject(NoData, Meta("object", "Invalid token", "400"))]
    [] text = "{\"meta\":{\"code\":\"400\"}}" ->
         [ok |-> TRUE, value |-> JsonObject(NoData, Meta("object", Undefined, "400"))]
    [] text = "{\"meta\":{}}" ->
         [ok |-> TRUE, value |-> JsonObject(NoData, Meta("object", Undefined, Undefined))]
    [] text = "{\"meta\":null}" ->
         [ok |-> TRUE, value |-> JsonObject(NoData, Meta("null", Undefined, Undefined))]
    [] text = "{\"error\":{\"message\":\"MESSAGE\",\"code\":\"CODE\"}}" ->
         [ok |-> TRUE, value |-> JsonObject(NoData, NoMeta)]
    [] text = "{\"firstName\":\"Jane\",\"lastName\":\"Doe\"}" ->
         [ok |-> TRUE, value |-> Json("object", NoData, NoMeta, "Jane", "Doe")]
    [] text = "{\"firstName\":\"Jane\"}" ->
         [ok |-> TRUE, value |-> Json("object", NoData, NoMeta, "Jane", Undefined)]
    [] OTHER -> [ok |-> FALSE, value |-> JsonPrimitive]

\* Reading a member's member (json.data.id, errorJSON.meta.code) throws a
\* TypeError when the value is null or the member is undefined or null.
MemberReadThrows(json, memberKind) ==
  json.top = "null" \/ memberKind \in {"undefined", "null"}

(***************************************************************************)
(* Errors.                                                                 *)
(***************************************************************************)
\* oauthError is a record: Prim(v) for a primitive, or the wrapped error object.
Prim(v) == [value |-> v]

Error(name, message, oauthError) ==
  [name |-> name, message |-> message, oauthError |-> oauthError]

NoError == Error("null", "", Prim(Undefined))
IsError(e) == e.name # "null"

InternalOAuthError(message, err) == Error("InternalOAuthError", message, err)
SyntaxError == Error("SyntaxError", "Unexpected token in JSON", Prim(Undefined))
TypeError == Error("TypeError", "Cannot read property of undefined", Prim(Undefined))

NoProfile == [undefined |-> TRUE]
IsProfile(p) == "provider" \in DOMAIN p

\* One call of userProfile's done(error, profile).
Done(error, profile) == [error |-> error, profile |-> profile]

(***************************************************************************)
(* userProfile of the OAuth2 variants.                                     *)
(***************************************************************************)
\* crypto.createHmac('sha256', key).update(message).digest('hex')
HmacSha256Hex(key, message) ==
  [hmac |-> "sha256", key |-> key, message |-> message, encoding |-> "hex"]

\* encodeURIComponent leaves hex digits as they are and escapes other encodings.
EncodeURIComponent(digest) ==
  IF digest.encoding = "hex" THEN digest
  ELSE [digest EXCEPT !.encoding = <<"percent-encoded", digest.encoding>>]

\* The URL of the profile GET, as the sequence of its pieces.
ProfileRequestURL(st, token) ==
  IF st.variant = "es6" /\ Truthy(st._enableProof)
  THEN <<st._profileURL, "?sig=",
         EncodeURIComponent(HmacSha256Hex(st._clientSecret,
                                          <<"/users/self|access_token=", token>>))>>
  ELSE <<st._profileURL>>

\* this._oauth2.get(url, accessToken, callback)
GetCall(st, token) == [url |-> ProfileRequestURL(st, token), accessToken |-> token]

NoTransportError == [isError |-> FALSE, statusCode |-> Undefined, data |-> Undefined]
TransportError(data) == [isError |-> TRUE, statusCode |-> "400", data |-> data]

ErrorDatas == {Undefined, "not a JSON", "null", ProviderErrorData,
               "{\"meta\":{\"code\":\"400\"}}", "{\"meta\":{}}", "{\"meta\":null}",
               "{\"error\":{\"message\":\"MESSAGE\",\"code\":\"CODE\"}}"}

ProfileBodies == {FullProfileBody, PartialProfileBody, "{\"data\":{}}", "{\"data\":5}",
                  "{\"data\":null}", "{}", "null", "5", "not a JSON"}

\* What the transport hands to the callback of _oauth2.get.
TransportResults ==
  {[error |-> TransportError(d), body |-> Undefined] : d \in ErrorDatas}
  \cup {[error |-> NoTransportError, body |-> b] : b \in ProfileBodies}

\* The error branch of the GET callback: try { JSON.parse(error.data) ... }
\* catch (_) { ... }.
FetchError(error) ==
  LET p == JSONParse(error.data) IN
  IF p.ok /\ ~MemberReadThrows(p.value, p.value.meta.kind)
  THEN InternalOAuthError(p.value.meta.error_message, Prim(p.value.meta.code))
  ELSE InternalOAuthError("Failed to fetch user profile", error)

\* A normalisation that takes the family name for the given name and back.
InstagramProfile_SwappedNames(body, json) ==
  [provider |-> "instagram",
   id |-> json.data.id,
   username |-> json.data.username,
   displayName |-> Or(json.data.full_name, ""),
   name |-> [familyName |-> Or(json.data.first_name, ""),
             givenName |-> Or(json.data.last_name, "")],
   emails |-> <<>>,
   photos |-> <<[value |-> json.data.profile_picture]>>,
   _raw |-> body,
   _json |-> [json EXCEPT !.id = json.data.id]]

InstagramProfile(body, json) ==
  [provider |-> "instagram",
   id |-> json.data.id,
   username |-> json.data.username,
   displayName |-> Or(json.data.full_name, ""),
   name |-> [familyName |-> Or(json.data.last_name, ""),
             givenName |-> Or(json.data.first_name, "")],
   emails |-> <<>>,
   photos |-> <<[value |-> json.data.profile_picture]>>,
   _raw |-> body,
   _json |-> [json EXCEPT !.id = json.data.id]]

\* The success branch of the GET callback up to its first done(...): the
\* arguments of that call.
NormalizeProfile(body) ==
  LET p == JSONParse(body) IN
  IF ~p.ok THEN Done(SyntaxError, NoProfile)
  ELSE IF MemberReadThrows(p.value, p.value.data.kind) THEN Done(TypeError, NoProfile)
  ELSE Done(NoError, InstagramProfile(body, p.value))

\* The first done(...) of the GET callback.
FirstDone(res) ==
  IF res.error.isError THEN Done(FetchError(res.error), NoProfile)
  ELSE NormalizeProfile(res.body)

(***************************************************************************)
(* userProfile of the Apple variant.  jwt.verify and the key set client    *)
(* are libraries: a presented identity token is described by what they     *)
(* find in it.                                                             *)
(***************************************************************************)
AppleIssuer == "https://appleid.apple.com"

Claims(sub, email, emailVerified, isPrivateEmail, aud, iss) ==
  [sub |-> sub, email |-> email, email_verified |-> emailVerified,
   is_private_email |-> isPrivateEmail, aud |-> aud, iss |-> iss]

SigningKey(present, publicKey, rsaPublicKey) ==
  [present |-> present, publicKey |-> publicKey, rsaPublicKey |-> rsaPublicKey]

Jwt(malformed, keyErr, key, alg, signatureValid, expired, claims) ==
  [malformed |-> malformed, keyErr |-> keyErr, key |-> key, alg |-> alg,
   signatureValid |-> signatureValid, expired |-> expired, claims |-> claims]

GoodKey == SigningKey(TRUE, "-----BEGIN PUBLIC KEY-----", Undefined)
GoodClaims == Claims("001.abc", "jane@example.com", "true", "true", "123", AppleIssuer)
GoodJwt(claims) == Jwt(FALSE, NoError, GoodKey, "RS256", TRUE, FALSE, claims)

IdentityTokens ==
  {GoodJwt(GoodClaims),
   GoodJwt([GoodClaims EXCEPT !.email_verified = JsTrue, !.is_private_email = "false"]),
   GoodJwt([GoodClaims EXCEPT !.email_verified = Undefined, !.is_private_email = Undefined]),
   GoodJwt([GoodClaims EXCEPT !.email = Undefined]),
   GoodJwt([GoodClaims EXCEPT !.aud = "com.other.app"]),
   GoodJwt([GoodClaims EXCEPT !.iss = "https://evil.example"]),
   [GoodJwt(GoodClaims) EXCEPT !.expired = TRUE],
   [GoodJwt(GoodClaims) EXCEPT !.signatureValid = FALSE],
   [GoodJwt(GoodClaims) EXCEPT !.alg = "HS256"],
   [GoodJwt(GoodClaims) EXCEPT !.malformed = TRUE],
   [GoodJwt(GoodClaims) EXCEPT !.key = SigningKey(TRUE, Undefined, "-----BEGIN RSA PUBLIC KEY-----")],
   [GoodJwt(GoodClaims) EXCEPT !.key = SigningKey(FALSE, Undefined, Undefined),
                               !.keyErr = Error("SigningKeyNotFoundError", "Unable to find a signing key", Prim(Undefined))]}

\* getAppleJWKSKey: callback(err, key && (key.publicKey || key.rsaPublicKey))
GetAppleJWKSKey(jwt) ==
  [err |-> jwt.keyErr,
   key |-> IF jwt.key.present THEN Or(jwt.key.publicKey, jwt.key.rsaPublicKey)
           ELSE Undefined]

JsonWebTokenError(message) == Error("JsonWebTokenError", message, Prim(Undefined))

\* jwt.verify(identityToken, getAppleJWKSKey, verifyOpts, callback): the
\* (err, jwtClaims) it calls back with.
JwtVerify(jwt, verifyOpts) ==
  LET k == GetAppleJWKSKey(jwt)
      fails(message) == [err |-> JsonWebTokenError(message), claims |-> jwt.claims]
  IN  IF jwt.malformed THEN fails("jwt malformed")
      ELSE IF IsError(k.err) THEN fails("error in secret or public key callback")
      ELSE IF ~Truthy(k.key) THEN fails("secret or public key must be provided")
      ELSE IF jwt.alg \notin verifyOpts.algorithms THEN fails("invalid algorithm")
      ELSE IF ~jwt.signatureValid THEN fails("invalid signature")
      ELSE IF jwt.expired
        THEN [err |-> Error("TokenExpiredError", "jwt expired", Prim(Undefined)),
              claims |-> jwt.claims]
      ELSE IF verifyOpts.audience # Undefined /\ jwt.claims.aud # verifyOpts.audience
        THEN fails("jwt audience invalid")
      ELSE IF verifyOpts.issuer # Undefined /\ jwt.claims.iss # verifyOpts.issuer
        THEN fails("jwt issuer invalid")
      ELSE [err |-> NoError, claims |-> jwt.claims]

\* Verification options without the audience.
VerifyOpts_NoAudience(st) ==
  [audience |-> Undefined, issuer |-> AppleIssuer, algorithms |-> {"RS256"}]

VerifyOpts(st) ==
  [audience |-> st._clientID, issuer |-> AppleIssuer, algorithms |-> {"RS256"}]

\* The jwt.verify call userProfile makes.
JwtVerifyCall(st, token) == [identityToken |-> token, verifyOpts |-> VerifyOpts(st)]

JsBool(b) == IF b THEN JsTrue ELSE JsFalse

\* JSON.stringify(jwtClaims)
JSONStringify(value) == [jsonTextOf |-> value]

\* const name = {}; if (user.lastName) ...; if (user.firstName) ...
AppleName(u) ==
  CASE Truthy(u.lastName) /\ Truthy(u.firstName) ->
         [familyName |-> u.lastName, givenName |-> u.firstName]
    [] Truthy(u.lastName) /\ ~Truthy(u.firstName) -> [familyName |-> u.lastName]
    [] OTHER -> [givenName |-> u.firstName]

\* A profile whose flags are the claims coerced to booleans.
AppleProfile_BooleanCoercion(jwtClaims, u) ==
  IF TruthyUser(u) /\ (Truthy(u.lastName) \/ Truthy(u.firstName))
  THEN [provider |-> "apple",
        id |-> jwtClaims.sub,
        emails |-> <<[value |-> jwtClaims.email]>>,
        emailVerified |-> JsBool(Truthy(jwtClaims.email_verified)),
        isPrivateEmail |-> JsBool(Truthy(jwtClaims.is_private_email)),
        _raw |-> JSONStringify(jwtClaims),
        _json |-> jwtClaims,
        name |-> AppleName(u)]
  ELSE [provider |-> "apple",
        id |-> jwtClaims.sub,
        emails |-> <<[value |-> jwtClaims.email]>>,
        emailVerified |-> JsBool(Truthy(jwtClaims.email_verified)),
        isPrivateEmail |-> JsBool(Truthy(jwtClaims.is_private_email)),
        _raw |-> JSONStringify(jwtClaims),
        _json |-> jwtClaims]

AppleProfile(jwtClaims, u) ==
  IF TruthyUser(u) /\ (Truthy(u.lastName) \/ Truthy(u.firstName))
  THEN [provider |-> "apple",
        id |-> jwtClaims.sub,
        emails |-> <<[value |-> jwtClaims.email]>>,
        emailVerified |-> JsBool(jwtClaims.email_verified = "true"),
        isPrivateEmail |-> JsBool(jwtClaims.is_private_email = "true"),
        _raw |-> JSONStringify(jwtClaims),
        _json |-> jwtClaims,
        name |-> AppleName(u)]
  ELSE [provider |-> "apple",
        id |-> jwtClaims.sub,
        emails |-> <<[value |-> jwtClaims.email]>>,
        emailVerified |-> JsBool(jwtClaims.email_verified = "true"),
        isPrivateEmail |-> JsBool(jwtClaims.is_private_email = "true"),
        _raw |-> JSONStringify(jwtClaims),
        _json |-> jwtClaims]

\* The done(...) of the jwt.verify callback.
AppleDone(st, jwt, u) ==
  LET v == JwtVerify(jwt, VerifyOpts(st)) IN
  IF IsError(v.err)
  THEN Done(InternalOAuthError("Failed to validate identity token", v.err), NoProfile)
  ELSE Done(NoError, AppleProfile(v.claims, u))

\* user = (req.body && req.body.user) || (req.query && req.query.user)
UserOf(r) ==
  IF TruthyUser(LookupUser(r.body)) THEN LookupUser(r.body) ELSE LookupUser(r.query)

\* A user value that is never parsed.
ParseUser_NoParse(u) == u

\* if (typeof user === 'string') { try { user = JSON.parse(user) } catch (err) {} }
ParseUser(u) ==
  IF u.t # "string" THEN u
  ELSE LET p == JSONParse(u.s) IN
       IF ~p.ok THEN u
       ELSE CASE p.value.top = "object" -> UserObject(p.value.firstName, p.value.lastName)
              [] p.value.top = "null" -> UserNull
              [] OTHER -> UserNumber

(***************************************************************************)
(* The verify callback and the outcomes reported to the host.              *)
(***************************************************************************)
NoInfo == [defined |-> FALSE, message |-> <<>>]
Info(text) == [defined |-> TRUE, message |-> <<text>>]

SuccessOutcome(u, info) == [kind |-> "success", user |-> u, info |-> info, error |-> NoError]
FailOutcome(info) == [kind |-> "fail", user |-> Undefined, info |-> info, error |-> NoError]
ErrorOutcome(e) == [kind |-> "error", user |-> Undefined, info |-> NoInfo, error |-> e]

\* A verified that looks at the user before it looks at the error.
Verified_UserFirst(c) ==
  IF ~Truthy(c.user) THEN FailOutcome(c.info)
  ELSE IF IsError(c.error) THEN ErrorOutcome(c.error)
  ELSE SuccessOutcome(c.user, c.info)

\* verified(error, user, info)
Verified(c) ==
  IF IsError(c.error) THEN ErrorOutcome(c.error)
  ELSE IF ~Truthy(c.user) THEN FailOutcome(c.info)
  ELSE SuccessOutcome(c.user, c.info)

\* What the application hands to verified.
Completions ==
  {[error |-> e, user |-> u, info |-> i] :
     e \in {NoError, Error("Error", "E1", Prim(Undefined))},
     u \in {JsFalse, Undefined, "user#1"},
     i \in {NoInfo, Info("foo")}}

NoCompletion == [error |-> NoError, user |-> Undefined, info |-> NoInfo]

\* What the application's verify callback does when called: it calls
\* verified before it returns ("sync"), returns and calls verified later
\* ("async"), or calls nothing ("none"); and it returns or throws.
VerifyBehaviours ==
  {[mode |-> "sync", throws |-> FALSE, completion |-> c] : c \in Completions}
  \cup {[mode |-> "sync", throws |-> TRUE, completion |-> c] :
          c \in {d \in Completions : d.info = NoInfo /\ d.user # Undefined}}
  \cup {[mode |-> "async", throws |-> FALSE, completion |-> NoCompletion],
        [mode |-> "none", throws |-> TRUE, completion |-> NoCompletion]}

ThrownByVerify == Error("Error", "thrown by the verify callback", Prim(Undefined))

\* A verify call whose token arguments stand in each other's place.
VerifyArgs_Swapped(st, r, token, refresh, profile) ==
  IF Truthy(st._passReqToCallback)
  THEN <<[req |-> r], Prim(refresh), Prim(token), [profile |-> profile],
         [callback |-> "verified"]>>
  ELSE <<Prim(refresh), Prim(token), [profile |-> profile], [callback |-> "verified"]>>

\* A verify call that never passes the request.
VerifyArgs_NoReq(st, r, token, refresh, profile) ==
  <<Prim(token), Prim(refresh), [profile |-> profile], [callback |-> "verified"]>>

\* The arguments of this._verify(...).
VerifyArgs(st, r, token, refresh, profile) ==
  IF Truthy(st._passReqToCallback)
  THEN <<[req |-> r], Prim(token), Prim(refresh), [profile |-> profile],
         [callback |-> "verified"]>>
  ELSE <<Prim(token), Prim(refresh), [profile |-> profile], [callback |-> "verified"]>>

\* A callback that goes on to verify after it has reported the fetch error.
Loaded_VerifyAnyway(st, r, token, refresh, d, vb) ==
  [calls |-> <<VerifyArgs(st, r, token, refresh, d.profile)>>,
   completions |-> IF vb.mode = "sync" THEN <<vb.completion>> ELSE <<>>,
   outcomes |-> (IF IsError(d.error) THEN <<ErrorOutcome(d.error)>> ELSE <<>>)
                \o (IF vb.mode = "sync" THEN <<Verified(vb.completion)>> ELSE <<>>),
   pending |-> vb.mode = "async",
   threw |-> vb.throws]

\* The callback authenticate gives to _loadUserProfile, run on done(d.error,
\* d.profile) against an application callback behaving as vb: the verify
\* calls made, the completions received, the outcomes reported, whether a
\* completion is still to come, and whether the run ends by an exception.
Loaded(st, r, token, refresh, d, vb) ==
  IF IsError(d.error)
  THEN [calls |-> <<>>, completions |-> <<>>, outcomes |-> <<ErrorOutcome(d.error)>>,
        pending |-> FALSE, threw |-> FALSE]
  ELSE [calls |-> <<VerifyArgs(st, r, token, refresh, d.profile)>>,
        completions |-> IF vb.mode = "sync" THEN <<vb.completion>> ELSE <<>>,
        outcomes |-> IF vb.mode = "sync" THEN <<Verified(vb.completion)>> ELSE <<>>,
        pending |-> vb.mode = "async",
        threw |-> vb.throws]

OutcomeState(o) ==
  CASE o.kind = "success" -> "Succeeded"
    [] o.kind = "fail" -> "Failed"
    [] o.kind = "error" -> "Errored"

OutcomeStates(os) == [i \in 1..Len(os) |-> OutcomeState(os[i])]

Last(seq) == seq[Len(seq)]

\* The callback of _oauth2.get, run on the transport result res.  The call
\* done(null, profile) stands inside the try block, so an exception that
\* leaves it is caught and handed to done a second time.
OAuth2Run(st, r, token, refresh, res, vb) ==
  LET d1 == FirstDone(res)
      run1 == Loaded(st, r, token, refresh, d1, vb)
      d2 == Done(ThrownByVerify, NoProfile)
      run2 == Loaded(st, r, token, refresh, d2, vb)
  IN  [dones |-> IF run1.threw THEN <<d1, d2>> ELSE <<d1>>,
       calls |-> run1.calls,
       completions |-> run1.completions,
       outcomes |-> IF run1.threw THEN run1.outcomes \o run2.outcomes ELSE run1.outcomes,
       pending |-> run1.pending,
       escaped |-> FALSE,
       stages |-> IF res.error.isError THEN <<>>
                  ELSE IF IsError(d1.error) THEN <<"NormalizingProfile">>
                  ELSE <<"NormalizingProfile", "Dispatching">>]

\* The callback of jwt.verify, run on what the library finds in the token.
\* No try block stands around its done(null, profile): an exception of the
\* verify callback leaves the strategy.
AppleRun(st, r, u, jwt, vb) ==
  LET d1 == AppleDone(st, jwt, u)
      run1 == Loaded(st, r, Undefined, Undefined, d1, vb)
  IN  [dones |-> <<d1>>,
       calls |-> run1.calls,
       completions |-> run1.completions,
       outcomes |-> run1.outcomes,
       pending |-> run1.pending,
       escaped |-> run1.threw,
       stages |-> IF IsError(d1.error) THEN <<>>
                  ELSE <<"NormalizingProfile", "Dispatching">>]

(***************************************************************************)
(* State.                                                                  *)
(***************************************************************************)
VARIABLES
  options,        \* the options object given to the constructor
  strategy,       \* the strategy object, as constructed
  pc,             \* per attempt: where it stands
  path,           \* per attempt: the states it went through
  req,            \* per attempt: the request given to authenticate
  accessToken,    \* per attempt: authenticate's accessToken / identityToken
  refreshToken,   \* per attempt: authenticate's refreshToken
  user,           \* per attempt: authenticate's user (Apple variant)
  fetchCalls,     \* per attempt: the calls of _oauth2.get / jwt.verify
  fetchResults,   \* per attempt: what the fetch called back with
  doneCalls,      \* per attempt: the calls of userProfile's done
  verifyCalls,    \* per attempt: the argument lists of this._verify
  verifiedCalls,  \* per attempt: the completions given to verified
  pendingVerify,  \* per attempt: verify returned and will call verified later
  outcomes        \* per attempt: the success / fail / error calls, in order

vars == <<options, strategy, pc, path, req, accessToken, refreshToken, user, fetchCalls,
          fetchResults, doneCalls, verifyCalls, verifiedCalls, pendingVerify, outcomes>>

EmptyRequest == [body |-> NoPart, query |-> NoPart, headers |-> NoPart]

Init ==
  /\ \E v \in Variants :
       /\ options \in OptionSet(v)
       /\ strategy = Construct(v, options)
  /\ pc = [a \in Attempts |-> "Start"]
  /\ path = [a \in Attempts |-> <<"Start">>]
  /\ req = [a \in Attempts |-> EmptyRequest]
  /\ accessToken = [a \in Attempts |-> Undefined]
  /\ refreshToken = [a \in Attempts |-> Undefined]
  /\ user = [a \in Attempts |-> UserUndefined]
  /\ fetchCalls = [a \in Attempts |-> <<>>]
  /\ fetchResults = [a \in Attempts |-> <<>>]
  /\ doneCalls = [a \in Attempts |-> <<>>]
  /\ verifyCalls = [a \in Attempts |-> <<>>]
  /\ verifiedCalls = [a \in Attempts |-> <<>>]
  /\ pendingVerify = [a \in Attempts |-> FALSE]
  /\ outcomes = [a \in Attempts |-> <<>>]

\* The fetch userProfile starts for a token.
FetchCall(st, token) ==
  IF st.variant = "apple" THEN JwtVerifyCall(st, token) ELSE GetCall(st, token)

\* An authenticate that keeps the token in a field of the strategy, where
\* every attempt reads it.
Authenticate_SharedToken(a, r) ==
  /\ pc[a] = "Start"
  /\ LET token == AccessTokenOf(strategy, r)
         steps == IF Truthy(token) THEN <<"ExtractingCredential", "FetchingProfile">>
                  ELSE <<"ExtractingCredential", "Failed">>
     IN  /\ req' = [req EXCEPT ![a] = r]
         /\ accessToken' = [b \in Attempts |-> token]
         /\ refreshToken' = [refreshToken EXCEPT ![a] = RefreshTokenOf(strategy, r)]
         /\ user' = [user EXCEPT ![a] =
                       IF strategy.variant # "apple" THEN @
                       ELSE IF Truthy(token) THEN ParseUser(UserOf(r)) ELSE UserOf(r)]
         /\ outcomes' = [outcomes EXCEPT ![a] =
                           IF Truthy(token) THEN @
                           ELSE Append(@, FailOutcome(MissingTokenInfo(strategy)))]
         /\ fetchCalls' = [fetchCalls EXCEPT ![a] =
                             IF Truthy(token) THEN Append(@, FetchCall(strategy, token))
                             ELSE @]
         /\ path' = [path EXCEPT ![a] = @ \o steps]
         /\ pc' = [pc EXCEPT ![a] = Last(steps)]
  /\ UNCHANGED <<options, strategy, fetchResults, doneCalls, verifyCalls, verifiedCalls, pendingVerify>>

\* authenticate(req, options)
Authenticate(a, r) ==
  /\ pc[a] = "Start"
  /\ LET token == AccessTokenOf(strategy, r)
         steps == IF Truthy(token) THEN <<"ExtractingCredential", "FetchingProfile">>
                  ELSE <<"ExtractingCredential", "Failed">>
     IN  /\ req' = [req EXCEPT ![a] = r]
         /\ accessToken' = [accessToken EXCEPT ![a] = token]
         /\ refreshToken' = [refreshToken EXCEPT ![a] = RefreshTokenOf(strategy, r)]
         /\ user' = [user EXCEPT ![a] =
                       IF strategy.variant # "apple" THEN @
                       ELSE IF Truthy(token) THEN ParseUser(UserOf(r)) ELSE UserOf(r)]
         /\ outcomes' = [outcomes EXCEPT ![a] =
                           IF Truthy(token) THEN @
                           ELSE Append(@, FailOutcome(MissingTokenInfo(strategy)))]
         /\ fetchCalls' = [fetchCalls EXCEPT ![a] =
                             IF Truthy(token) THEN Append(@, FetchCall(strategy, token))
                             ELSE @]
         /\ path' = [path EXCEPT ![a] = @ \o steps]
         /\ pc' = [pc EXCEPT ![a] = Last(steps)]
  /\ UNCHANGED <<options, strategy, fetchResults, doneCalls, verifyCalls, verifiedCalls, pendingVerify>>

\* The state after the synchronous run `run` of a fetch callback.
Complete(a, res, run) ==
  LET steps == run.stages \o OutcomeStates(run.outcomes)
               \o (IF run.escaped THEN <<"Thrown">> ELSE <<>>)
  IN  /\ fetchResults' = [fetchResults EXCEPT ![a] = Append(@, res)]
      /\ doneCalls' = [doneCalls EXCEPT ![a] = @ \o run.dones]
      /\ verifyCalls' = [verifyCalls EXCEPT ![a] = @ \o run.calls]
      /\ verifiedCalls' = [verifiedCalls EXCEPT ![a] = @ \o run.completions]
      /\ outcomes' = [outcomes EXCEPT ![a] = @ \o run.outcomes]
      /\ pendingVerify' = [pendingVerify EXCEPT ![a] = run.pending]
      /\ path' = [path EXCEPT ![a] = @ \o steps]
      /\ pc' = [pc EXCEPT ![a] = Last(steps)]
      /\ UNCHANGED <<options, strategy, req, accessToken, refreshToken, user, fetchCalls>>

\* The transport calls the callback of _oauth2.get (OAuth2 variants).
GetComplete(a, res, vb) ==
  /\ pc[a] = "FetchingProfile"
  /\ strategy.variant # "apple"
  /\ Complete(a, res, OAuth2Run(strategy, req[a], accessToken[a], refreshToken[a], res, vb))

\* jwt.verify calls its callback (Apple variant).
JwtVerifyComplete(a, jwt, vb) ==
  /\ pc[a] = "FetchingProfile"
  /\ strategy.variant = "apple"
  /\ Complete(a, jwt, AppleRun(strategy, req[a], user[a], jwt, vb))

\* The application calls verified after its verify callback returned.
VerifyComplete(a, c) ==
  /\ pendingVerify[a]
  /\ verifiedCalls' = [verifiedCalls EXCEPT ![a] = Append(@, c)]
  /\ outcomes' = [outcomes EXCEPT ![a] = Append(@, Verified(c))]
  /\ pendingVerify' = [pendingVerify EXCEPT ![a] = FALSE]
  /\ path' = [path EXCEPT ![a] = Append(@, OutcomeState(Verified(c)))]
  /\ pc' = [pc EXCEPT ![a] = OutcomeState(Verified(c))]
  /\ UNCHANGED <<options, strategy, req, accessToken, refreshToken, user, fetchCalls,
                 fetchResults, doneCalls, verifyCalls>>

Next ==
  \E a \in SeqAttempts :
    \/ pc[a] = "Start" /\ \E r \in Requests(strategy.variant) : Authenticate(a, r)
    \/ /\ pc[a] = "FetchingProfile" /\ strategy.variant # "apple"
       /\ \E res \in TransportResults, vb \in VerifyBehaviours : GetComplete(a, res, vb)
    \/ /\ pc[a] = "FetchingProfile" /\ strategy.variant = "apple"
       /\ \E jwt \in IdentityTokens, vb \in VerifyBehaviours : JwtVerifyComplete(a, jwt, vb)
    \/ pendingVerify[a] /\ \E c \in Completions : VerifyComplete(a, c)

Spec == Init /\ [][Next]_vars

(***************************************************************************)
(* Two attempts on one strategy object, their callbacks interleaved in     *)
(* every order.  The inputs are a part of those of Spec.                   *)
(***************************************************************************)
ConcurrentRequests(variant) ==
  {[body |-> MkPart(ks, b, rp[1], up[1]),
    query |-> MkPart(ks, q, rp[2], up[2]),
    headers |-> NoPart] :
     ks \in KeyStyles(variant),
     b \in {TokenNames[1], "#absent"},
     q \in {TokenNames[2], "#absent"},
     rp \in {IF variant = "apple" THEN <<Undefined, Undefined, Undefined>>
             ELSE <<"r1", "r2", Undefined>>},
     up \in {IF variant = "apple" THEN <<UserUndefined, UserObject("Jane", "Doe")>>
             ELSE <<UserUndefined, UserUndefined>>}}

ConcurrentTransportResults ==
  {[error |-> TransportError(ProviderErrorData), body |-> Undefined]}
  \cup {[error |-> NoTransportError, body |-> b] :
          b \in {FullProfileBody, PartialProfileBody, "not a JSON"}}

ConcurrentIdentityTokens ==
  {GoodJwt(GoodClaims),
   GoodJwt([GoodClaims EXCEPT !.email = Undefined]),
   GoodJwt([GoodClaims EXCEPT !.aud = "com.other.app"])}

ConcurrentCompletions ==
  {[error |-> NoError, user |-> "user#1", info |-> NoInfo],
   [error |-> NoError, user |-> JsFalse, info |-> Info("foo")]}

ConcurrentVerifyBehaviours ==
  {[mode |-> "sync", throws |-> t, completion |-> c] :
     t \in BOOLEAN, c \in ConcurrentCompletions}
  \cup {[mode |-> "async", throws |-> FALSE, completion |-> NoCompletion]}

NextConcurrent ==
  \E a \in Attempts :
    \/ pc[a] = "Start" /\ \E r \in ConcurrentRequests(strategy.variant) : Authenticate(a, r)
    \/ /\ pc[a] = "FetchingProfile" /\ strategy.variant # "apple"
       /\ \E res \in ConcurrentTransportResults, vb \in ConcurrentVerifyBehaviours :
            GetComplete(a, res, vb)
    \/ /\ pc[a] = "FetchingProfile" /\ strategy.variant = "apple"
       /\ \E jwt \in ConcurrentIdentityTokens, vb \in ConcurrentVerifyBehaviours :
            JwtVerifyComplete(a, jwt, vb)
    \/ pendingVerify[a] /\ \E c \in ConcurrentCompletions : VerifyComplete(a, c)

SpecConcurrent == Init /\ [][NextConcurrent]_vars

(***************************************************************************)
(* Properties.                                                             *)
(***************************************************************************)
\* The attempts authenticate has been called for.
Started(a) == pc[a] # "Start"

\* A part of the request carries no value, or an empty one, for a field.
Lacks(part, field) == ~part.present \/ part.fields[field] \in {Undefined, ""}

\* The name of the primary token field, as configured: the option, or the
\* variant's default (the legacy variant has no such option).
ConfiguredTokenField ==
  CASE strategy.variant = "es6" ->
         IF options.accessTokenField = Undefined THEN "access_token"
         ELSE options.accessTokenField
    [] strategy.variant = "legacy" -> "access_token"
    [] strategy.variant = "apple" ->
         IF options.identityTokenField = Undefined THEN "id_token"
         ELSE options.identityTokenField

ConfiguredRefreshField ==
  IF strategy.variant = "es6" /\ options.refreshTokenField # Undefined
  THEN options.refreshTokenField ELSE "refresh_token"

\* C1: in every variant, a request that lacks the configured primary token
\* field in body, query and headers ends authenticate with the single outcome
\* fail({message: "You should provide <fieldName>"}), and no fetch, done or
\* verify call is made for the attempt.
C1_MissingTokenFails ==
  \A a \in Attempts :
    (/\ Started(a)
     /\ Lacks(req[a].body, ConfiguredTokenField)
     /\ Lacks(req[a].query, ConfiguredTokenField)
     /\ Lacks(req[a].headers, ConfiguredTokenField))
    => /\ outcomes[a] = <<[kind |-> "fail", user |-> Undefined, error |-> NoError,
                           info |-> [defined |-> TRUE,
                                     message |-> <<"You should provide ",
                                                   ConfiguredTokenField>>]]>>
       /\ pc[a] = "Failed"
       /\ fetchCalls[a] = <<>>
       /\ fetchResults[a] = <<>>
       /\ doneCalls[a] = <<>>
       /\ verifyCalls[a] = <<>>
       /\ ~pendingVerify[a]

\* A missing-token failure under a custom field name, of a request that
\* carries a token under the default name.
C1_Witness ==
  /\ strategy.variant = "es6"
  /\ ConfiguredTokenField = "tok"
  /\ Started(1)
  /\ Lacks(req[1].body, "tok") /\ Lacks(req[1].query, "tok") /\ Lacks(req[1].headers, "tok")
  /\ req[1].body.present /\ req[1].body.fields["access_token"] \in Tokens
  /\ pc[1] = "Failed"

\* C2: an attempt reports at most one outcome, visits no state twice, and
\* stands in Failed, Errored or Succeeded exactly when it has reported one.
C2_ExactlyOneOutcome ==
  \A a \in Attempts :
    /\ Len(outcomes[a]) <= 1
    /\ \A i, j \in 1..Len(path[a]) : path[a][i] = path[a][j] => i = j
    /\ pc[a] \in {"Failed", "Errored", "Succeeded"} <=> Len(outcomes[a]) = 1

\* The value of the first part, in the given order, that carries a
\* non-empty value for the field; undefined when none does.
FirstNonEmptyIn(parts, field) ==
  IF \E i \in 1..Len(parts) : ~Lacks(parts[i], field)
  THEN LET i == CHOOSE k \in 1..Len(parts) :
                  /\ ~Lacks(parts[k], field)
                  /\ \A j \in 1..(k - 1) : Lacks(parts[j], field)
       IN  parts[i].fields[field]
  ELSE Undefined

\* got is the extractor's result for a request whose first non-empty value
\* is want.
Extracted(got, want) ==
  IF want = Undefined THEN got \in {Undefined, ""} ELSE got = want

AllParts(r) == <<r.body, r.query, r.headers>>

\* The parts a variant reads: only the legacy variant reads the headers.
ReadParts(r) ==
  IF strategy.variant = "legacy" THEN <<r.body, r.query, r.headers>>
  ELSE <<r.body, r.query>>

\* C3 as stated: in every variant the extracted tokens are the first
\* non-empty values of their fields in body, then query, then headers.
C3_Original ==
  \A a \in Attempts :
    Started(a) =>
      /\ Extracted(accessToken[a], FirstNonEmptyIn(AllParts(req[a]), ConfiguredTokenField))
      /\ strategy.variant # "apple" =>
           Extracted(refreshToken[a],
                     FirstNonEmptyIn(AllParts(req[a]), ConfiguredRefreshField))

\* C3 (amended): the extracted tokens are the first non-empty values of their
\* fields in body, then query, and then, in the legacy variant only, headers;
\* the other two variants never read the headers.
C3_FirstNonEmptyInReadParts ==
  \A a \in Attempts :
    Started(a) =>
      /\ Extracted(accessToken[a], FirstNonEmptyIn(ReadParts(req[a]), ConfiguredTokenField))
      /\ strategy.variant # "apple" =>
           Extracted(refreshToken[a],
                     FirstNonEmptyIn(ReadParts(req[a]), ConfiguredRefreshField))

\* The legacy variant takes the token from the headers, and another variant
\* takes the query's token although the body carries an empty one.
C3_Witness ==
  /\ strategy.variant = "legacy"
  /\ Started(1)
  /\ Lacks(req[1].body, "access_token") /\ Lacks(req[1].query, "access_token")
  /\ req[1].headers.present
  /\ accessToken[1] \in Tokens
  /\ accessToken[1] = req[1].headers.fields["access_token"]
  /\ refreshToken[1] = "r3"

\* The token arguments of a verify call.
AccessArg(args) == IF Len(args) = 5 THEN args[2].value ELSE args[1].value
RefreshArg(args) == IF Len(args) = 5 THEN args[3].value ELSE args[2].value
ProfileArg(args) == IF Len(args) = 5 THEN args[4].profile ELSE args[3].profile

\* Exactly one of body, query and headers carries a non-empty value for the field.
CarriedOnce(r, field) ==
  Cardinality({i \in 1..3 : ~Lacks(AllParts(r)[i], field)}) = 1

FetchSucceeded(a) == doneCalls[a] # <<>> /\ ~IsError(doneCalls[a][1].error)

\* C4 as stated: in every variant, a token carried by exactly one of body,
\* query and headers is, once the fetch has succeeded, the access-token
\* argument of the verify call, and the secondary token found in the request
\* its refresh-token argument.
C4_Original ==
  \A a \in Attempts :
    (Started(a) /\ CarriedOnce(req[a], ConfiguredTokenField) /\ FetchSucceeded(a))
    => /\ Len(verifyCalls[a]) = 1
       /\ AccessArg(verifyCalls[a][1])
            = FirstNonEmptyIn(AllParts(req[a]), ConfiguredTokenField)
       /\ Extracted(RefreshArg(verifyCalls[a][1]),
                    FirstNonEmptyIn(AllParts(req[a]), ConfiguredRefreshField))

\* C4 (amended): in the two OAuth2 variants the token carried by exactly one
\* part is the access-token argument and the secondary token found in the
\* parts the variant reads the refresh-token argument; the Apple variant
\* calls verify with undefined for both.
C4_TokenPassedThrough ==
  \A a \in Attempts :
    (Started(a) /\ CarriedOnce(req[a], ConfiguredTokenField) /\ FetchSucceeded(a))
    => /\ Len(verifyCalls[a]) = 1
       /\ strategy.variant # "apple" =>
            /\ AccessArg(verifyCalls[a][1])
                 = FirstNonEmptyIn(AllParts(req[a]), ConfiguredTokenField)
            /\ Extracted(RefreshArg(verifyCalls[a][1]),
                         FirstNonEmptyIn(ReadParts(req[a]), ConfiguredRefreshField))
       /\ strategy.variant = "apple" =>
            /\ AccessArg(verifyCalls[a][1]) = Undefined
            /\ RefreshArg(verifyCalls[a][1]) = Undefined

\* A token carried by the query alone reaches verify, with the query's
\* refresh token.
C4_Witness ==
  /\ strategy.variant = "es6"
  /\ CarriedOnce(req[1], ConfiguredTokenField)
  /\ ~Lacks(req[1].query, ConfiguredTokenField)
  /\ Len(verifyCalls[1]) = 1
  /\ AccessArg(verifyCalls[1][1]) = req[1].query.fields[ConfiguredTokenField]
  /\ RefreshArg(verifyCalls[1][1]) = "r2"

\* The outcome o is the one the completion c of the verify callback asks for.
MapsTo(c, o) ==
  /\ IsError(c.error) => (o.kind = "error" /\ o.error = c.error)
  /\ (~IsError(c.error) /\ c.user \in {JsFalse, Undefined, Null, ""})
       => (o.kind = "fail" /\ o.info = c.info)
  /\ (~IsError(c.error) /\ c.user \notin {JsFalse, Undefined, Null, ""})
       => (o.kind = "success" /\ o.user = c.user /\ o.info = c.info)

\* C5: the outcome reported for a completion (error, user, info) of the
\* verify callback is error with that error when the error is set, fail with
\* info when there is no error and the user is falsy, and success with user
\* and info when there is no error and the user is truthy.
C5_OutcomeFollowsCompletion ==
  \A a \in Attempts :
    verifiedCalls[a] # <<>> =>
      /\ Len(verifiedCalls[a]) = 1
      /\ outcomes[a] # <<>>
      /\ MapsTo(verifiedCalls[a][1], outcomes[a][1])

\* A late completion (null, false, info) has ended the attempt with fail(info).
C5_Witness ==
  /\ verifiedCalls[1] = <<[error |-> NoError, user |-> JsFalse, info |-> Info("foo")]>>
  /\ outcomes[1] = <<[kind |-> "fail", user |-> Undefined, info |-> Info("foo"),
                      error |-> NoError]>>
  /\ pc[1] = "Failed"
  /\ ~pendingVerify[1]

\* The profile GET failed: the transport reported an error, or the body is
\* no JSON text, or reading data's members of the parsed body throws.
GetFailed(res) ==
  \/ res.error.isError
  \/ ~JSONParse(res.body).ok
  \/ JSONParse(res.body).value.top = "null"
  \/ JSONParse(res.body).value.data.kind \in {"undefined", "null"}

\* The identity token does not stand verification for this configuration.
TokenRejected(jwt) ==
  \/ jwt.malformed
  \/ IsError(jwt.keyErr) \/ ~jwt.key.present
  \/ jwt.alg # "RS256"
  \/ ~jwt.signatureValid
  \/ jwt.expired
  \/ jwt.claims.aud # options.clientID
  \/ jwt.claims.iss # "https://appleid.apple.com"

FetchFailed(a) ==
  /\ fetchResults[a] # <<>>
  /\ IF strategy.variant = "apple" THEN TokenRejected(fetchResults[a][1])
     ELSE GetFailed(fetchResults[a][1])

\* C6: when the profile fetch or the token verification fails, the attempt
\* ends with the single outcome error carrying the error userProfile
\* completed with, and the verify callback is not called; a token of another
\* audience than clientID is such a failure.
C6_FetchFailureIsError ==
  \A a \in Attempts :
    FetchFailed(a) =>
      /\ Len(doneCalls[a]) = 1
      /\ IsError(doneCalls[a][1].error)
      /\ outcomes[a] = <<[kind |-> "error", user |-> Undefined, info |-> NoInfo,
                          error |-> doneCalls[a][1].error]>>
      /\ pc[a] = "Errored"
      /\ verifyCalls[a] = <<>>
      /\ verifiedCalls[a] = <<>>
      /\ ~pendingVerify[a]

\* An otherwise valid identity token of another audience has ended in error.
C6_Witness ==
  /\ strategy.variant = "apple"
  /\ fetchResults[1] # <<>>
  /\ fetchResults[1][1].claims.aud = "com.other.app"
  /\ fetchResults[1][1].signatureValid /\ ~fetchResults[1][1].expired
  /\ pc[1] = "Errored"
  /\ outcomes[1][1].error.name = "InternalOAuthError"
  /\ outcomes[1][1].error.oauthError.message = "jwt audience invalid"

\* The token arguments authenticate has to hand to verify.
ExpectedAccessArg(a) == IF strategy.variant = "apple" THEN Undefined ELSE accessToken[a]
ExpectedRefreshArg(a) == IF strategy.variant = "apple" THEN Undefined ELSE refreshToken[a]

\* C7: with passReqToCallback the verify callback gets exactly (req,
\* accessToken, refreshToken, profile, verified), req being the request given
\* to authenticate; without it exactly (accessToken, refreshToken, profile,
\* verified); profile is the one userProfile completed with.
C7_VerifyArguments ==
  \A a \in Attempts :
    verifyCalls[a] # <<>> =>
      LET args == verifyCalls[a][1]
          profile == doneCalls[a][1].profile
      IN  /\ Len(verifyCalls[a]) = 1
          /\ IsProfile(profile)
          /\ IF options.passReqToCallback = JsTrue
             THEN /\ Len(args) = 5
                  /\ args[1] = [req |-> req[a]]
                  /\ args[2] = [value |-> ExpectedAccessArg(a)]
                  /\ args[3] = [value |-> ExpectedRefreshArg(a)]
                  /\ args[4] = [profile |-> profile]
                  /\ args[5] = [callback |-> "verified"]
             ELSE /\ Len(args) = 4
                  /\ args[1] = [value |-> ExpectedAccessArg(a)]
                  /\ args[2] = [value |-> ExpectedRefreshArg(a)]
                  /\ args[3] = [profile |-> profile]
                  /\ args[4] = [callback |-> "verified"]

\* A verify call with the request in front, of a request with a query part.
C7_Witness ==
  /\ options.passReqToCallback = JsTrue
  /\ Len(verifyCalls[1]) = 1
  /\ Len(verifyCalls[1][1]) = 5
  /\ verifyCalls[1][1][1].req = req[1]
  /\ req[1].query.present
  /\ verifyCalls[1][1][4].profile.provider = "instagram"

\* enableProof as src/src/index.js resolves it: the option when it is a
\* boolean, true otherwise.
ProofEnabled == options.enableProof # JsFalse

ConfiguredProfileURL ==
  IF options.profileURL = Undefined THEN "https://api.instagram.com/v1/users/self"
  ELSE options.profileURL

NoDataObject(body) ==
  \/ ~JSONParse(body).ok
  \/ JSONParse(body).value.top # "object"
  \/ JSONParse(body).value.data.kind # "object"

\* C9: on a successful transport response whose body is not JSON, or is JSON
\* without a data object, userProfile completes exactly once, with an error
\* and without a profile.
C9_MalformedBodyIsParseError ==
  \A a \in Attempts :
    (/\ strategy.variant # "apple"
     /\ fetchResults[a] # <<>>
     /\ ~fetchResults[a][1].error.isError
     /\ NoDataObject(fetchResults[a][1].body))
    => /\ Len(doneCalls[a]) = 1
       /\ IsError(doneCalls[a][1].error)
       /\ ~IsProfile(doneCalls[a][1].profile)

\* The error's data is JSON that contains meta.error_message and meta.code.
HasProviderError(data) ==
  /\ JSONParse(data).ok
  /\ JSONParse(data).value.top = "object"
  /\ JSONParse(data).value.meta.kind = "object"
  /\ JSONParse(data).value.meta.error_message # Undefined
  /\ JSONParse(data).value.meta.code # Undefined

\* C10: on a transport error userProfile completes with an error and no
\* profile; the error carries meta.error_message and meta.code when the
\* error's data is JSON containing both, and is otherwise the generic
\* "Failed to fetch user profile" error wrapping the transport error.
C10_ProviderErrorOrGeneric ==
  \A a \in Attempts :
    (/\ strategy.variant # "apple"
     /\ fetchResults[a] # <<>>
     /\ fetchResults[a][1].error.isError)
    => LET error == fetchResults[a][1].error
           json == JSONParse(error.data).value
       IN  /\ Len(doneCalls[a]) = 1
           /\ ~IsProfile(doneCalls[a][1].profile)
           /\ doneCalls[a][1].error =
                IF HasProviderError(error.data)
                THEN [name |-> "InternalOAuthError",
                      message |-> json.meta.error_message,
                      oauthError |-> [value |-> json.meta.code]]
                ELSE [name |-> "InternalOAuthError",
                      message |-> "Failed to fetch user profile",
                      oauthError |-> error]

\* A payload whose data object supplies every member the profile is made of.
WellFormedPayload(body) ==
  /\ JSONParse(body).ok
  /\ JSONParse(body).value.top = "object"
  /\ JSONParse(body).value.data.kind = "object"
  /\ \A member \in {"id", "username", "full_name", "first_name", "last_name",
                    "profile_picture"} :
       JSONParse(body).value.data[member] \notin {Undefined, Null, ""}

\* The attempts whose profile GET answered with a well-formed payload.
GotWellFormedPayload(a) ==
  /\ strategy.variant # "apple"
  /\ fetchResults[a] # <<>>
  /\ ~fetchResults[a][1].error.isError
  /\ WellFormedPayload(fetchResults[a][1].body)

\* The members of the normalized profile other than _json are as the payload
\* gives them.
ProfileFollowsPayload(profile, body) ==
  LET data == JSONParse(body).value.data IN
  /\ profile.provider = "instagram"
  /\ profile.id = data.id
  /\ profile.username = data.username
  /\ profile.displayName = data.full_name
  /\ profile.name = [familyName |-> data.last_name, givenName |-> data.first_name]
  /\ profile.emails = <<>>
  /\ profile.photos = <<[value |-> data.profile_picture]>>
  /\ profile._raw = body

\* C11 as stated: of a well-formed payload the normalized profile has
\* provider, id, username, displayName, name, emails, photos and _raw as the
\* payload gives them, and _json is the parsed payload.
C11_Original ==
  \A a \in Attempts :
    GotWellFormedPayload(a) =>
      /\ doneCalls[a] # <<>>
      /\ doneCalls[a][1].error = NoError
      /\ IsProfile(doneCalls[a][1].profile)
      /\ ProfileFollowsPayload(doneCalls[a][1].profile, fetchResults[a][1].body)
      /\ doneCalls[a][1].profile._json = JSONParse(fetchResults[a][1].body).value

\* C11 (amended): as stated, but _json is the parsed payload with a top-level
\* member id added to it, set to data.id.
C11_NormalizedProfile ==
  \A a \in Attempts :
    GotWellFormedPayload(a) =>
      LET json == JSONParse(fetchResults[a][1].body).value IN
      /\ doneCalls[a] # <<>>
      /\ doneCalls[a][1].error = NoError
      /\ IsProfile(doneCalls[a][1].profile)
      /\ ProfileFollowsPayload(doneCalls[a][1].profile, fetchResults[a][1].body)
      /\ doneCalls[a][1].profile._json =
           [top |-> json.top, data |-> json.data, meta |-> json.meta,
            firstName |-> json.firstName, lastName |-> json.lastName,
            id |-> json.data.id]

\* The profile of the well-formed payload has reached the verify callback.
C11_Witness ==
  /\ GotWellFormedPayload(1)
  /\ doneCalls[1][1].profile.id = "1234567"
  /\ doneCalls[1][1].profile.name.familyName = "Obrezkov"
  /\ doneCalls[1][1].profile._json.id = "1234567"
  /\ Len(verifyCalls[1]) = 1
  /\ ProfileArg(verifyCalls[1][1]) = doneCalls[1][1].profile

\* A value that is neither null nor undefined.
Defined(v) == v \notin {Undefined, Null}

\* C12: every profile handed to the verify callback has its id from the
\* provider's subject identifier (data.id, the sub claim), and its username,
\* display name, family and given name and photo value (OAuth2), or its email
\* value (OIDC), are never null or undefined.
C12_ProfileFieldsDefined ==
  \A a \in Attempts :
    verifyCalls[a] # <<>> =>
      LET profile == ProfileArg(verifyCalls[a][1]) IN
      /\ Defined(profile.id)
      /\ profile.provider = "instagram" =>
           /\ profile.id = JSONParse(fetchResults[a][1].body).value.data.id
           /\ Defined(profile.username)
           /\ Defined(profile.displayName)
           /\ Defined(profile.name.familyName)
           /\ Defined(profile.name.givenName)
           /\ profile.emails = <<>>
           /\ Len(profile.photos) = 1
           /\ Defined(profile.photos[1].value)
      /\ profile.provider = "apple" =>
           /\ profile.id = fetchResults[a][1].claims.sub
           /\ Len(profile.emails) = 1
           /\ Defined(profile.emails[1].value)

\* The first and last name the request's user value supplies: the body's
\* user, else the query's, read as JSON when it is a string.
SuppliedNames(r) ==
  LET u == IF r.body.present /\ TruthyUser(r.body.user) THEN r.body.user
           ELSE IF r.query.present THEN r.query.user
           ELSE UserUndefined
  IN  CASE u.t = "object" -> [first |-> u.firstName, last |-> u.lastName]
        [] u.t = "string" /\ JSONParse(u.s).ok /\ JSONParse(u.s).value.top = "object" ->
             [first |-> JSONParse(u.s).value.firstName,
              last |-> JSONParse(u.s).value.lastName]
        [] OTHER -> [first |-> Undefined, last |-> Undefined]

Supplied(v) == v \notin {Undefined, Null, ""}

\* The members of an Apple profile made without any user value.
PlainAppleMembers ==
  {"provider", "id", "emails", "emailVerified", "isPrivateEmail", "_raw", "_json"}

\* C13: in the OIDC adapter the user value never makes an attempt fail or
\* err (a token that stands verification gives a profile whatever the user
\* is); the profile has a name exactly when the user value supplies a first
\* or a last name, name then holds exactly the supplied parts, and without
\* them the profile has the members it has with no user at all.
C13_NameOnlyWhenSupplied ==
  \A a \in Attempts :
    (strategy.variant = "apple" /\ fetchResults[a] # <<>>) =>
      LET names == SuppliedNames(req[a])
          profile == doneCalls[a][1].profile
      IN  /\ Len(doneCalls[a]) = 1
          /\ IsError(doneCalls[a][1].error) <=> TokenRejected(fetchResults[a][1])
          /\ ~IsError(doneCalls[a][1].error) =>
               /\ ("name" \in DOMAIN profile) <=> (Supplied(names.first) \/ Supplied(names.last))
               /\ DOMAIN profile \ {"name"} = PlainAppleMembers
               /\ "name" \in DOMAIN profile =>
                    /\ ("givenName" \in DOMAIN profile.name) <=> Supplied(names.first)
                    /\ ("familyName" \in DOMAIN profile.name) <=> Supplied(names.last)
                    /\ DOMAIN profile.name \subseteq {"givenName", "familyName"}
                    /\ Supplied(names.first) => profile.name.givenName = names.first
                    /\ Supplied(names.last) => profile.name.familyName = names.last

\* A user given as JSON text with a first name only: name holds givenName only.
C13_Witness ==
  /\ strategy.variant = "apple"
  /\ req[1].body.present
  /\ req[1].body.user = [t |-> "string", s |-> "{\"firstName\":\"Jane\"}",
                         firstName |-> Undefined, lastName |-> Undefined]
  /\ doneCalls[1] # <<>>
  /\ ~IsError(doneCalls[1][1].error)
  /\ doneCalls[1][1].profile.name = [givenName |-> "Jane"]

\* The attempts of the OIDC adapter whose token stood verification.
ClaimsVerified(a) ==
  /\ strategy.variant = "apple"
  /\ fetchResults[a] # <<>>
  /\ ~TokenRejected(fetchResults[a][1])

\* C14: in the OIDC adapter the profile of verified claims has id equal to
\* the sub claim, exactly one email entry whose value is the email claim, and
\* emailVerified (isPrivateEmail) true exactly when the email_verified
\* (is_private_email) claim is the string "true", false for any other value.
C14_ClaimsToProfile ==
  \A a \in Attempts :
    ClaimsVerified(a) =>
      LET claims == fetchResults[a][1].claims
          profile == doneCalls[a][1].profile
      IN  /\ IsProfile(profile)
          /\ profile.id = claims.sub
          /\ profile.emails = <<[value |-> claims.email]>>
          /\ profile.emailVerified \in {"#true", "#false"}
          /\ profile.isPrivateEmail \in {"#true", "#false"}
          /\ profile.emailVerified = "#true" <=> claims.email_verified = "true"
          /\ profile.isPrivateEmail = "#true" <=> claims.is_private_email = "true"

\* The boolean true as email_verified and "false" as is_private_email both
\* give false.
C14_Witness ==
  /\ ClaimsVerified(1)
  /\ fetchResults[1][1].claims.email_verified = "#true"
  /\ fetchResults[1][1].claims.is_private_email = "false"
  /\ doneCalls[1][1].profile.emailVerified = "#false"
  /\ doneCalls[1][1].profile.isPrivateEmail = "#false"
  /\ doneCalls[1][1].profile.id = "001.abc"

\* The fetch of the attempt has completed, and without failure.
FetchCompletedWell(a) ==
  /\ fetchResults[a] # <<>>
  /\ ~FetchFailed(a)

\* At most one fetch and at most one verify call, the verify call only after
\* a fetch that completed well.
AtMostOnce(a) ==
  /\ Len(fetchCalls[a]) <= 1
  /\ Len(fetchResults[a]) <= Len(fetchCalls[a])
  /\ Len(verifyCalls[a]) <= 1
  /\ verifyCalls[a] # <<>> => FetchCompletedWell(a)
  /\ (fetchResults[a] # <<>> /\ FetchFailed(a)) => verifyCalls[a] = <<>>

\* Once the fetch has completed or an outcome is reported, a step starts no
\* fetch and makes no verify call.
NoRetryStep(a) ==
  (fetchResults[a] # <<>> \/ outcomes[a] # <<>>) =>
    /\ fetchCalls'[a] = fetchCalls[a]
    /\ verifyCalls'[a] = verifyCalls[a]

\* C15: within an attempt the fetch is started at most once and verify is
\* called at most once, only after the fetch completed well; after a fetch
\* error, a fail or an error no fetch is re-issued and verify is not called
\* again.
C15_NoRetries ==
  /\ [](\A a \in Attempts : AtMostOnce(a))
  /\ [][\A a \in Attempts : NoRetryStep(a)]_vars

\* The verify callback has completed and thrown; the attempt ended in error
\* with one fetch and one verify call.
C15_Witness ==
  /\ Len(doneCalls[1]) = 2
  /\ Len(fetchCalls[1]) = 1
  /\ Len(verifyCalls[1]) = 1
  /\ Len(outcomes[1]) = 2
  /\ outcomes[1][2].kind = "error"

\* Everything the model keeps for one attempt.
AttemptState(a) ==
  <<pc[a], path[a], req[a], accessToken[a], refreshToken[a], user[a], fetchCalls[a],
    fetchResults[a], doneCalls[a], verifyCalls[a], verifiedCalls[a], pendingVerify[a],
    outcomes[a]>>

\* What userProfile completes with for the attempt's own request and fetch
\* result, on the strategy as constructed.
OwnDone(a) ==
  LET st == Construct(strategy.variant, options) IN
  IF strategy.variant = "apple"
  THEN AppleDone(st, fetchResults[a][1], ParseUser(UserOf(req[a])))
  ELSE FirstDone(fetchResults[a][1])

\* The outcomes the attempt's own request, done calls and verify completions
\* give.
OwnOutcomes(a) ==
  IF ~Started(a) THEN <<>>
  ELSE IF fetchCalls[a] = <<>>
    THEN <<FailOutcome([defined |-> TRUE,
                        message |-> <<"You should provide ", ConfiguredTokenField>>])>>
  ELSE IF doneCalls[a] = <<>> THEN <<>>
  ELSE IF IsError(doneCalls[a][1].error) THEN <<ErrorOutcome(doneCalls[a][1].error)>>
  ELSE (IF verifiedCalls[a] # <<>> THEN <<Verified(verifiedCalls[a][1])>> ELSE <<>>)
       \o (IF Len(doneCalls[a]) = 2 THEN <<ErrorOutcome(doneCalls[a][2].error)>> ELSE <<>>)

\* The attempt's tokens, profile, verify arguments and outcomes are those of
\* its own request and results.
OwnResults(a) ==
  /\ Started(a) =>
       /\ Extracted(accessToken[a],
                    FirstNonEmptyIn(ReadParts(req[a]), ConfiguredTokenField))
       /\ fetchCalls[a] # <<>> =>
            fetchCalls[a] = <<FetchCall(Construct(strategy.variant, options), accessToken[a])>>
  /\ doneCalls[a] # <<>> => doneCalls[a][1] = OwnDone(a)
  /\ verifyCalls[a] # <<>> =>
       /\ ProfileArg(verifyCalls[a][1]) = OwnDone(a).profile
       /\ AccessArg(verifyCalls[a][1]) = ExpectedAccessArg(a)
       /\ RefreshArg(verifyCalls[a][1]) = ExpectedRefreshArg(a)
       /\ Len(verifyCalls[a][1]) = 5 => verifyCalls[a][1][1].req = req[a]
  /\ outcomes[a] = OwnOutcomes(a)

\* A step belongs to one attempt: it leaves the other attempt as it is, and
\* it leaves the configuration as constructed.
OwnStep ==
  /\ options' = options
  /\ strategy' = strategy
  /\ \E a \in Attempts : \A b \in Attempts \ {a} : AttemptState(b)' = AttemptState(b)

\* C16: with two attempts interleaved on one strategy object, each attempt's
\* tokens, profile and outcomes are those its own request and its own fetch
\* and verify results give, no step of one attempt changes anything of the
\* other, and the configuration stays as constructed.
C16_AttemptsIndependent ==
  /\ [](strategy = Construct(strategy.variant, options))
  /\ [](\A a \in Attempts : OwnResults(a))
  /\ [][OwnStep]_vars

\* Attempt 1 waits for its verify callback while attempt 2, started with
\* another token, has already ended in error; later attempt 1 may succeed.
C16_Witness ==
  /\ pendingVerify[1]
  /\ pc[2] = "Errored"
  /\ accessToken[1] \in Tokens /\ accessToken[2] \in Tokens
  /\ accessToken[1] # accessToken[2]
  /\ Len(verifyCalls[1]) = 1 /\ verifyCalls[2] = <<>>
  /\ AccessArg(verifyCalls[1][1]) = ExpectedAccessArg(1)

====
